---- MODULE Spec2Model ----
(***************************************************************************)
(* The JIRA harvest of issues/jira/jira.go: Tracker.FetchAll with its      *)
(* worker pool, Tracker.GetFrom, Tracker.AddIssueLink, the pending dates   *)
(* of createdDatesSet and the shared issues.Database.                      *)
(*                                                                         *)
(* Thread 0 is the goroutine that calls FetchAll; threads 1..N are the     *)
(* goroutines FetchAll starts.  Every step is one critical section (one    *)
(* lock held), one channel operation, one unguarded access of the          *)
(* Tracker's fields, or one call of jsonutil.Get.                          *)
(***************************************************************************)
EXTENDS Integers, Sequences, FiniteSets, Bags, TLC

(***************************************************************************)
(* Bounds of the model.                                                    *)
(***************************************************************************)
MaxN == 2
MaxTotal == 5
LinkTotal == 3
MaxPage == 2
MaxTime == 2

\* const InitialMaxResults int = 250
InitialMaxResults == 250

Min(a, b) == IF a < b THEN a ELSE b
Max(a, b) == IF a > b THEN a ELSE b
SetMin(S) == CHOOSE x \in S : \A y \in S : x <= y

(***************************************************************************)
(* The remote tracker.  Issue ids are 1..total in creation order; the key  *)
(* (Issue.Name) of issue i is a different value from its id.  The zero     *)
(* time.Time is 0, the empty string key is EmptyKey.                       *)
(***************************************************************************)
IssueIds == 1..MaxTotal
\* an id some link may name although no page ever returns it
ForeignId == MaxTotal + 1
KeyOf(i) == <<"PROJ", i>>
EmptyKey == <<>>
ZeroTime == 0
LinkTypeOf(lid) == IF lid = "L1" THEN "blocks" ELSE "relates to"

\* one element of fields.issuelinks: id, type.inward, inwardIssue.id when
\* the record has an inwardIssue
LinkRec(lid, inward, other) ==
    [id |-> lid, inward |-> inward, other |-> other, type |-> LinkTypeOf(lid)]

\* one item of changelog.histories[].items with the created of its history;
\* hasTo is FALSE when the item's "to" is null
HistRec(field, hasTo, to, created) ==
    [field |-> field, hasTo |-> hasTo, to |-> to, created |-> created]

NoLinks == [i \in IssueIds |-> <<>>]
NoHist == [i \in IssueIds |-> <<>>]
NoParent == [i \in IssueIds |-> 0]

\* flaky: whether a jsonutil.Get against this remote may return an error
Dataset(total_, cap_, reportsMax_, flaky_, parent_, links_, hist_) ==
    [total |-> total_, cap |-> cap_, reportsMax |-> reportsMax_, flaky |-> flaky_,
     parent |-> parent_, links |-> links_, hist |-> hist_]

\* pagination: every total and page size; fetches may fail
FlakyData ==
    { Dataset(tt, cp, TRUE, TRUE, NoParent, NoLinks, NoHist) :
        tt \in 0..MaxTotal, cp \in 1..MaxPage }

\* pagination: every total and page size, responses with and without a
\* maxResults field, a parent on the last issue or none
PagingData ==
    { Dataset(tt, cp, rm, FALSE,
              IF pr /\ tt >= 2 THEN [NoParent EXCEPT ![tt] = 1] ELSE NoParent,
              NoLinks, NoHist) :
        tt \in 0..MaxTotal, cp \in 1..MaxPage, rm \in BOOLEAN, pr \in BOOLEAN }

\* one link id reported by issue x and by issue y (twice by x when x = y),
\* each report with or without an inwardIssue; the second report may carry
\* another id.  A link id has one type (LinkTypeOf), so the Links a record
\* of id L1 puts in Graph are those of Type LinkTypeOf("L1").
LinksOf(x, y, ix, iy, lid2) ==
    IF x = y
    THEN [NoLinks EXCEPT ![x] = <<LinkRec("L1", ix, y), LinkRec(lid2, iy, x)>>]
    ELSE [NoLinks EXCEPT ![x] = <<LinkRec("L1", ix, y)>>,
                         ![y] = <<LinkRec(lid2, iy, x)>>]

LinkData ==
    { Dataset(LinkTotal, cp, TRUE, FALSE, NoParent, LinksOf(x, y, ix, iy, lid2), NoHist) :
        cp \in 1..MaxPage, x \in 1..LinkTotal, y \in 1..LinkTotal,
        ix \in BOOLEAN, iy \in BOOLEAN, lid2 \in {"L1", "L2"} }

\* the last issue, a, reports an inward link to b (the first issue, itself,
\* or ForeignId) and has a changelog of up to two items; issue 2 has one
\* "Link" item of its own, so that two sources have pending dates
HistItems(b) ==
    { HistRec("Link", TRUE, KeyOf(b), tm) : tm \in 1..MaxTime }
    \cup { HistRec("Link", FALSE, EmptyKey, 1),
           HistRec("Link", TRUE, EmptyKey, 1),
           HistRec("status", TRUE, KeyOf(b), 1) }

HistSeqs(b) ==
    {<<>>} \cup { <<h>> : h \in HistItems(b) }
           \cup { <<h1, h2>> : h1 \in HistItems(b), h2 \in HistItems(b) }

HistOf(a, b, hs) ==
    IF a = 2
    THEN [NoHist EXCEPT ![a] = hs]
    ELSE [NoHist EXCEPT ![a] = hs, ![2] = <<HistRec("Link", TRUE, KeyOf(b), MaxTime)>>]

HistData ==
    UNION { { Dataset(LinkTotal, cp, TRUE, FALSE, NoParent,
                      [NoLinks EXCEPT ![a] = <<LinkRec("L1", TRUE, b)>>],
                      HistOf(a, b, hs)) : hs \in HistSeqs(b) } :
        cp \in {1, LinkTotal}, a \in {LinkTotal}, b \in {1, LinkTotal, ForeignId} }

Datasets == FlakyData \cup PagingData \cup LinkData \cup HistData

(***************************************************************************)
(* State.                                                                  *)
(***************************************************************************)
VARIABLES
    data,         \* what the remote tracker serves (fixed during a harvest)
    N,            \* the argument of FetchAll
    total,        \* Tracker.total
    maxResults,   \* Tracker.maxResults
    Issues,       \* Database.Issues
    Tree,         \* Database.Tree
    Graph,        \* Database.Graph
    issueLinks,   \* Tracker.issueLinks.Set
    dates,        \* Tracker.createdDatesSet.dates
    th,           \* per goroutine: position and locals of FetchAll / GetFrom
    start,        \* FetchAll's loop variable start
    firstBatchEnd,\* FetchAll's firstBatchEnd
    workClosed,   \* close(work) has run
    joined,       \* values received from done
    fetchLog,     \* history: every jsonutil.Get call that returned
    scheduled,    \* history: the offsets sent on work, in order
    evidence,     \* history: the (from, toKey, date) of every addDate call
    calls,        \* history: the (iss, parent) of every SetParent call, in order
    added         \* history: the Link of every AddLink call, in order

db == <<Issues, Tree, Graph>>
tracker == <<total, maxResults, issueLinks, dates>>
orch == <<start, firstBatchEnd, workClosed, joined>>
history == <<fetchLog, scheduled, evidence, calls, added>>
vars == <<data, N, db, tracker, th, orch, history>>

Threads == 0..MaxN
Workers == 1..MaxN
EmptyMap == [x \in {} |-> 0]

\* the locals of one goroutine: pc, GetFrom's start, the issues of the
\* response and its maxResults, the loop indexes over issues, issuelinks and
\* changelog items
Local(pc_) ==
    [pc |-> pc_, start |-> 0, page |-> <<>>, rmax |-> 0, ii |-> 0, li |-> 0, hi |-> 0]

(***************************************************************************)
(* issues.Database                                                         *)
(***************************************************************************)
\* db.Issues[iss.Id] = iss
AddIssue(I, iss) ==
    [x \in DOMAIN I \cup {iss.Id} |-> IF x = iss.Id THEN iss ELSE I[x]]

\* a SetParent that keeps the entry a child already has
SetParentFirst(T, iss, parent) ==
    IF iss \in DOMAIN T THEN T
    ELSE [x \in DOMAIN T \cup {iss} |-> IF x = iss THEN parent ELSE T[x]]

\* db.Tree[iss] = parent
SetParent(T, iss, parent) ==
    [x \in DOMAIN T \cup {iss} |-> IF x = iss THEN parent ELSE T[x]]

\* an AddLink that skips a Link its source already has
AddLinkDedup(G, l) ==
    IF l.From \in DOMAIN G /\ \E i \in DOMAIN G[l.From] : G[l.From][i] = l
    THEN G
    ELSE [x \in DOMAIN G \cup {l.From} |->
            IF x = l.From
            THEN Append(IF x \in DOMAIN G THEN G[x] ELSE <<>>, l)
            ELSE G[x]]

\* db.Graph[l.From] = append(db.Graph[l.From], l)
AddLink(G, l) ==
    [x \in DOMAIN G \cup {l.From} |->
        IF x = l.From
        THEN (IF x \in DOMAIN G THEN Append(G[x], l) ELSE <<l>>)
        ELSE G[x]]

(***************************************************************************)
(* stringSet and createdDatesSet                                           *)
(***************************************************************************)
\* a lookup that never finds the string
ContainsNever(S, str) == FALSE
Contains(S, str) == str \in S
Add(S, str) == S \cup {str}

\* the last date observed wins
addDateLast(D, from, toKey, date) ==
    LET old == IF from \in DOMAIN D THEN D[from] ELSE EmptyMap
    IN  [f \in DOMAIN D \cup {from} |->
            IF f = from
            THEN [k \in DOMAIN old \cup {toKey} |-> IF k = toKey THEN date ELSE old[k]]
            ELSE D[f]]

\* keeps the stored date when the new one is after it, else stores the new
addDate(D, from, toKey, date) ==
    LET old == IF from \in DOMAIN D THEN D[from] ELSE EmptyMap
        new == IF toKey \in DOMAIN old /\ date > old[toKey]
               THEN old
               ELSE [k \in DOMAIN old \cup {toKey} |->
                        IF k = toKey THEN date ELSE old[k]]
    IN  [f \in DOMAIN D \cup {from} |-> IF f = from THEN new ELSE D[f]]

(***************************************************************************)
(* The remote side of jsonutil.Get(t.url("/search"), params)               *)
(***************************************************************************)
LinkIds == {"L1", "L2"}

\* the page size the remote honours for a request of maxResults = requested
Honoured(requested) == Min(requested, data.cap)

\* r["issues"] for startAt = s: the ids of the issues of that page
ServedPage(s, requested) ==
    LET last == Min(s + Honoured(requested), data.total)
    IN  [k \in 1..Max(0, last - s) |-> s + k]

\* parseIssue: the Issue of a served record
parseIssue(i) == [Id |-> i, Name |-> KeyOf(i)]

(***************************************************************************)
(* Control flow of GetFrom's loops (no shared state is touched here).      *)
(***************************************************************************)
\* GetFrom returns: thread 0 goes on in FetchAll, a worker to its range loop
Return(t) == Local(IF t = 0 THEN "check" ELSE "recv")

\* for _, issueInterface := range issueList
GotoIssue(t, r, ii) ==
    IF ii <= Len(r.page)
    THEN [r EXCEPT !.pc = "issue", !.ii = ii, !.li = 0, !.hi = 0]
    ELSE Return(t)

\* parseChangelog's loops: the next item at or after hi whose field is
\* "Link" and whose "to" is not null; items of other fields are skipped
GotoDate(t, r, hi) ==
    LET h == data.hist[r.page[r.ii]]
        idx == { k \in hi..Len(h) : h[k].field = "Link" /\ h[k].hasTo }
    IN  IF idx # {}
        THEN [r EXCEPT !.pc = "date", !.li = 0, !.hi = SetMin(idx)]
        ELSE GotoIssue(t, r, r.ii + 1)

\* for _, issueLinkInterface := range fields["issuelinks"]
GotoLink(t, r, li) ==
    IF li <= Len(data.links[r.page[r.ii]])
    THEN [r EXCEPT !.pc = "contains", !.li = li]
    ELSE GotoDate(t, r, 1)

CurIssue(t) == th[t].page[th[t].ii]
CurLink(t) == data.links[CurIssue(t)][th[t].li]
CurItem(t) == data.hist[CurIssue(t)][th[t].hi]

(***************************************************************************)
(* Tracker.GetFrom, run by thread t                                        *)
(***************************************************************************)
\* a failed fetch is tried once more
GetRetry(t) ==
    /\ th[t].pc = "get"
    /\ \E ok \in (IF data.flaky THEN BOOLEAN ELSE {TRUE}) :
        /\ fetchLog' = fetchLog (+) SetToBag({[start |-> th[t].start, ok |-> ok, by |-> t]})
        /\ th' = [th EXCEPT ![t] =
                    IF ok
                    THEN [@ EXCEPT !.pc = "params",
                                   !.page = ServedPage(th[t].start, maxResults),
                                   !.rmax = Honoured(maxResults)]
                    ELSE IF ~BagIn([start |-> th[t].start, ok |-> FALSE, by |-> t], fetchLog)
                         THEN th[t]
                         ELSE Return(t)]
    /\ UNCHANGED <<data, N, db, tracker, orch, scheduled, evidence, calls, added>>

\* lines 256-265: Search reads t.maxResults, jsonutil.Get returns a response
\* or (from a flaky remote) an error; on an error GetFrom returns at once
Get(t) ==
    /\ th[t].pc = "get"
    /\ \E ok \in (IF data.flaky THEN BOOLEAN ELSE {TRUE}) :
        /\ fetchLog' = fetchLog (+) SetToBag({[start |-> th[t].start, ok |-> ok, by |-> t]})
        /\ th' = [th EXCEPT ![t] =
                    IF ok
                    THEN [@ EXCEPT !.pc = "params",
                                   !.page = ServedPage(th[t].start, maxResults),
                                   !.rmax = Honoured(maxResults)]
                    ELSE Return(t)]
    /\ UNCHANGED <<data, N, db, tracker, orch, scheduled, evidence, calls, added>>

\* lines 266-271: the unguarded writes of t.maxResults and t.total
Params(t) ==
    /\ th[t].pc = "params"
    /\ maxResults' = IF data.reportsMax THEN th[t].rmax ELSE maxResults
    /\ total' = IF total = 0 THEN data.total ELSE total
    /\ th' = [th EXCEPT ![t] = GotoIssue(t, th[t], 1)]
    /\ UNCHANGED <<data, N, db, issueLinks, dates, orch, history>>

\* lines 275-286: db.AddIssue(issue), then the parent test
StoreIssue(t) ==
    /\ th[t].pc = "issue"
    /\ Issues' = AddIssue(Issues, parseIssue(CurIssue(t)))
    /\ th' = [th EXCEPT ![t] =
                IF data.parent[CurIssue(t)] # 0
                THEN [@ EXCEPT !.pc = "parent"]
                ELSE GotoLink(t, th[t], 1)]
    /\ UNCHANGED <<data, N, Tree, Graph, tracker, orch, history>>

\* line 285: db.SetParent(issue.Id, parent id)
StoreParent(t) ==
    /\ th[t].pc = "parent"
    /\ Tree' = SetParent(Tree, CurIssue(t), data.parent[CurIssue(t)])
    /\ calls' = Append(calls, <<CurIssue(t), data.parent[CurIssue(t)]>>)
    /\ th' = [th EXCEPT ![t] = GotoLink(t, th[t], 1)]
    /\ UNCHANGED <<data, N, Issues, Graph, tracker, orch, fetchLog, scheduled, evidence, added>>

(***************************************************************************)
(* Tracker.AddIssueLink(issue.Id, link), three critical sections           *)
(***************************************************************************)
\* an AddIssueLink that records a Link whichever side the record names
LinkContainsAnySide(t) ==
    /\ th[t].pc = "contains"
    /\ th' = [th EXCEPT ![t] =
                IF Contains(issueLinks, CurLink(t).id)
                THEN GotoLink(t, th[t], th[t].li + 1)
                ELSE [@ EXCEPT !.pc = "addlink"]]
    /\ UNCHANGED <<data, N, db, tracker, orch, history>>

\* lines 113-118: t.issueLinks.Contains(id), then the inwardIssue test
LinkContains(t) ==
    /\ th[t].pc = "contains"
    /\ th' = [th EXCEPT ![t] =
                IF Contains(issueLinks, CurLink(t).id)
                THEN GotoLink(t, th[t], th[t].li + 1)
                ELSE IF CurLink(t).inward
                     THEN [@ EXCEPT !.pc = "addlink"]
                     ELSE [@ EXCEPT !.pc = "add"]]
    /\ UNCHANGED <<data, N, db, tracker, orch, history>>

\* a Link stamped with a time when it is ingested
LinkAddLinkStamped(t) ==
    /\ th[t].pc = "addlink"
    /\ Graph' = AddLink(Graph, [From |-> CurIssue(t), To |-> CurLink(t).other,
                                Type |-> CurLink(t).type, Created |-> MaxTime])
    /\ added' = Append(added, [From |-> CurIssue(t), To |-> CurLink(t).other,
                                Type |-> CurLink(t).type, Created |-> MaxTime])
    /\ th' = [th EXCEPT ![t].pc = "add"]
    /\ UNCHANGED <<data, N, Issues, Tree, tracker, orch, fetchLog, scheduled, evidence, calls>>

\* lines 119-128: t.DB.AddLink(Link{From, To, Type})
LinkAddLink(t) ==
    /\ th[t].pc = "addlink"
    /\ Graph' = AddLink(Graph, [From |-> CurIssue(t), To |-> CurLink(t).other,
                                Type |-> CurLink(t).type, Created |-> ZeroTime])
    /\ added' = Append(added, [From |-> CurIssue(t), To |-> CurLink(t).other,
                                Type |-> CurLink(t).type, Created |-> ZeroTime])
    /\ th' = [th EXCEPT ![t].pc = "add"]
    /\ UNCHANGED <<data, N, Issues, Tree, tracker, orch, fetchLog, scheduled, evidence, calls>>

\* line 130: t.issueLinks.Add(id)
LinkAdd(t) ==
    /\ th[t].pc = "add"
    /\ issueLinks' = Add(issueLinks, CurLink(t).id)
    /\ th' = [th EXCEPT ![t] = GotoLink(t, th[t], th[t].li + 1)]
    /\ UNCHANGED <<data, N, db, total, maxResults, dates, orch, history>>

\* line 227 in parseChangelog: createdDates.addDate(from, toKey, created)
ChangelogDate(t) ==
    /\ th[t].pc = "date"
    /\ dates' = addDate(dates, CurIssue(t), CurItem(t).to, CurItem(t).created)
    /\ evidence' = evidence \cup {<<CurIssue(t), CurItem(t).to, CurItem(t).created>>}
    /\ th' = [th EXCEPT ![t] = GotoDate(t, th[t], th[t].hi + 1)]
    /\ UNCHANGED <<data, N, db, total, maxResults, issueLinks, orch,
                   fetchLog, scheduled, calls, added>>

GetFrom(t) ==
    \/ Get(t)
    \/ Params(t)
    \/ StoreIssue(t)
    \/ StoreParent(t)
    \/ LinkContains(t)
    \/ LinkAddLink(t)
    \/ LinkAdd(t)
    \/ ChangelogDate(t)

(***************************************************************************)
(* Tracker.addCreatedDates                                                 *)
(***************************************************************************)
\* lines 233-240: the Name of every link target that is a known issue
keyLookup(G, I) ==
    LET tos == UNION { { G[f][i].To : i \in DOMAIN G[f] } : f \in DOMAIN G }
    IN  [id \in tos \cap DOMAIN I |-> I[id].Name]

\* keyLookup[link.To]: a missing key reads as the empty string
LookupKey(G, I, id) ==
    IF id \in DOMAIN keyLookup(G, I) THEN keyLookup(G, I)[id] ELSE EmptyKey

\* a reconciliation that rebuilds Graph from the sources with pending dates
addCreatedDatesDrop(G, I, D) ==
    [f \in DOMAIN G \cap DOMAIN D |->
        [i \in DOMAIN G[f] |->
            IF LookupKey(G, I, G[f][i].To) \in DOMAIN D[f]
            THEN [G[f][i] EXCEPT !.Created = D[f][LookupKey(G, I, G[f][i].To)]]
            ELSE G[f][i]]]

\* lines 243-249: the links of every source with pending dates get the date
\* recorded for their target's key
addCreatedDates(G, I, D) ==
    [f \in DOMAIN G |->
        IF f \in DOMAIN D
        THEN [i \in DOMAIN G[f] |->
                IF LookupKey(G, I, G[f][i].To) \in DOMAIN D[f]
                THEN [G[f][i] EXCEPT !.Created = D[f][LookupKey(G, I, G[f][i].To)]]
                ELSE G[f][i]]
        ELSE G[f]]

(***************************************************************************)
(* Tracker.FetchAll(N), thread 0 and the workers it starts                 *)
(***************************************************************************)
\* the early return taken only when the first page exceeds total
CheckStrict ==
    /\ th[0].pc = "check"
    /\ firstBatchEnd' = Cardinality(DOMAIN Issues)
    /\ IF Cardinality(DOMAIN Issues) > total
       THEN /\ th' = [th EXCEPT ![0] = Local("complete")]
            /\ start' = start
       ELSE /\ th' = [t \in Threads |->
                        IF t = 0 THEN Local("dispatch")
                        ELSE IF t <= N THEN Local("recv") ELSE th[t]]
            /\ start' = Cardinality(DOMAIN Issues)
    /\ UNCHANGED <<data, N, db, tracker, workClosed, joined, history>>

\* lines 140-157: firstBatchEnd and the early return; else the channels are
\* made, N workers are started and the dispatch loop is entered
Check ==
    /\ th[0].pc = "check"
    /\ firstBatchEnd' = Cardinality(DOMAIN Issues)
    /\ IF Cardinality(DOMAIN Issues) >= total
       THEN /\ th' = [th EXCEPT ![0] = Local("complete")]
            /\ start' = start
       ELSE /\ th' = [t \in Threads |->
                        IF t = 0 THEN Local("dispatch")
                        ELSE IF t <= N THEN Local("recv") ELSE th[t]]
            /\ start' = Cardinality(DOMAIN Issues)
    /\ UNCHANGED <<data, N, db, tracker, workClosed, joined, history>>

\* line 158-159 with line 148: start < t.total, and the unbuffered send of
\* the worker reads the loop variable after the orchestrator has advanced it
SendStale(w) ==
    /\ th[0].pc = "dispatch"
    /\ start < total
    /\ w \in 1..N
    /\ th[w].pc = "recv"
    /\ ~workClosed
    /\ th' = [th EXCEPT ![0].pc = "advance",
                        ![w] = [Local("get") EXCEPT !.start = start + maxResults]]
    /\ scheduled' = Append(scheduled, start)
    /\ UNCHANGED <<data, N, db, tracker, orch, fetchLog, evidence, calls, added>>

\* start meets the receive of worker w
Send(w) ==
    /\ th[0].pc = "dispatch"
    /\ start < total
    /\ w \in 1..N
    /\ th[w].pc = "recv"
    /\ ~workClosed
    /\ th' = [th EXCEPT ![0].pc = "advance",
                        ![w] = [Local("get") EXCEPT !.start = start]]
    /\ scheduled' = Append(scheduled, start)
    /\ UNCHANGED <<data, N, db, tracker, orch, fetchLog, evidence, calls, added>>

\* a stride one larger than the page size
AdvanceSkip ==
    /\ th[0].pc = "advance"
    /\ start' = start + maxResults + 1
    /\ th' = [th EXCEPT ![0].pc = "dispatch"]
    /\ UNCHANGED <<data, N, db, tracker, firstBatchEnd, workClosed, joined, history>>

\* the stride taken from the initial page size, not from the learned one
AdvanceFixed ==
    /\ th[0].pc = "advance"
    /\ start' = start + InitialMaxResults
    /\ th' = [th EXCEPT ![0].pc = "dispatch"]
    /\ UNCHANGED <<data, N, db, tracker, firstBatchEnd, workClosed, joined, history>>

\* line 158: start += t.maxResults
Advance ==
    /\ th[0].pc = "advance"
    /\ start' = start + maxResults
    /\ th' = [th EXCEPT ![0].pc = "dispatch"]
    /\ UNCHANGED <<data, N, db, tracker, firstBatchEnd, workClosed, joined, history>>

\* the loop ends and work is left open
CloseMissing ==
    /\ th[0].pc = "dispatch"
    /\ ~(start < total)
    /\ th' = [th EXCEPT ![0].pc = IF 0 < N THEN "join" ELSE "reconcile"]
    /\ UNCHANGED <<data, N, db, tracker, orch, history>>

\* lines 158 and 161: the loop ends, close(work)
Close ==
    /\ th[0].pc = "dispatch"
    /\ ~(start < total)
    /\ workClosed' = TRUE
    /\ th' = [th EXCEPT ![0].pc = IF 0 < N THEN "join" ELSE "reconcile"]
    /\ UNCHANGED <<data, N, db, tracker, start, firstBatchEnd, joined, history>>

\* a worker that leaves its loop as soon as no offset is waiting for it
ExitLoopEager(w) ==
    /\ w \in 1..N
    /\ th[w].pc = "recv"
    /\ th' = [th EXCEPT ![w].pc = "senddone"]
    /\ UNCHANGED <<data, N, db, tracker, orch, history>>

\* line 148: range work ends once work is closed
ExitLoop(w) ==
    /\ w \in 1..N
    /\ th[w].pc = "recv"
    /\ workClosed
    /\ th' = [th EXCEPT ![w].pc = "senddone"]
    /\ UNCHANGED <<data, N, db, tracker, orch, history>>

\* the loop over done left after the first receive
JoinFirstOnly(w) ==
    /\ th[0].pc = "join"
    /\ w \in 1..N
    /\ th[w].pc = "senddone"
    /\ joined' = joined + 1
    /\ th' = [th EXCEPT ![w].pc = "exited", ![0].pc = "reconcile"]
    /\ UNCHANGED <<data, N, db, tracker, start, firstBatchEnd, workClosed, history>>

\* lines 155 and 162-164: done <- true of worker w meets <-done; after N
\* receives thread 0 leaves the loop
Join(w) ==
    /\ th[0].pc = "join"
    /\ w \in 1..N
    /\ th[w].pc = "senddone"
    /\ joined' = joined + 1
    /\ th' = [th EXCEPT ![w].pc = "exited",
                        ![0].pc = IF joined + 1 < N THEN "join" ELSE "reconcile"]
    /\ UNCHANGED <<data, N, db, tracker, start, firstBatchEnd, workClosed, history>>

\* a reconciliation that deletes only the sources that have Links in Graph
ReconcileKeepUnmatched ==
    /\ th[0].pc = "reconcile"
    /\ Graph' = addCreatedDates(Graph, Issues, dates)
    /\ dates' = [f \in DOMAIN dates \ DOMAIN Graph |-> dates[f]]
    /\ th' = [th EXCEPT ![0].pc = "done"]
    /\ UNCHANGED <<data, N, Issues, Tree, total, maxResults, issueLinks, orch, history>>

\* line 165: t.addCreatedDates(), every pending source consumed and deleted
Reconcile ==
    /\ th[0].pc = "reconcile"
    /\ Graph' = addCreatedDates(Graph, Issues, dates)
    /\ dates' = EmptyMap
    /\ th' = [th EXCEPT ![0].pc = "done"]
    /\ UNCHANGED <<data, N, Issues, Tree, total, maxResults, issueLinks, orch, history>>

(***************************************************************************)
(* The harvest                                                             *)
(***************************************************************************)
\* NewTracker, and FetchAll(N) about to call GetFrom(0)
Init ==
    /\ data \in Datasets
    /\ N \in 0..MaxN
    /\ total = 0
    /\ maxResults = InitialMaxResults
    /\ Issues = EmptyMap
    /\ Tree = EmptyMap
    /\ Graph = EmptyMap
    /\ issueLinks = {}
    /\ dates = EmptyMap
    /\ th = [t \in Threads |-> IF t = 0 THEN Local("get") ELSE Local("unborn")]
    /\ start = 0
    /\ firstBatchEnd = 0
    /\ workClosed = FALSE
    /\ joined = 0
    /\ fetchLog = EmptyBag
    /\ scheduled = <<>>
    /\ evidence = {}
    /\ calls = <<>>
    /\ added = <<>>

Next ==
    \/ \E t \in Threads : GetFrom(t)
    \/ Check
    \/ \E w \in Workers : Send(w)
    \/ Advance
    \/ Close
    \/ \E w \in Workers : ExitLoop(w)
    \/ \E w \in Workers : Join(w)
    \/ Reconcile

Spec == Init /\ [][Next]_vars

\* every runnable goroutine is scheduled and every jsonutil.Get returns
FairSpec == Spec /\ WF_vars(Next)

(***************************************************************************)
(* Vocabulary of the properties                                            *)
(***************************************************************************)
\* FetchAll has returned, at line 142 ("complete") or after line 165 ("done")
Returned == th[0].pc \in {"complete", "done"}
Reconciled == th[0].pc = "done"

FetchRecs == BagToSet(fetchLog)
NoFetchFailed == \A r \in FetchRecs : r.ok
WorkerFetchFailed == \E r \in FetchRecs : ~r.ok /\ r.by # 0

\* the positions <<source, index>> of Graph, and the number of Links that
\* the records of link id lid have put in Graph
GraphEntries(G) == UNION { { <<f, i>> : i \in DOMAIN G[f] } : f \in DOMAIN G }
LinksOfId(G, lid) ==
    Cardinality({ p \in GraphEntries(G) : G[p[1]][p[2]].Type = LinkTypeOf(lid) })

\* the issuelinks records of issue i
RecordsOf(i) == { data.links[i][k] : k \in DOMAIN data.links[i] }
HasLink(G, from, rec) ==
    /\ from \in DOMAIN G
    /\ \E i \in DOMAIN G[from] :
          /\ G[from][i].From = from
          /\ G[from][i].To = rec.other
          /\ G[from][i].Type = rec.type

\* a thread is inside AddIssueLink
InAddIssueLink(t) == th[t].pc \in {"contains", "addlink", "add"}

(***************************************************************************)
(* C1: in every reachable state, under any interleaving of the workers,    *)
(* Graph holds at most one Link per remote link id.                        *)
(***************************************************************************)
C1_OneLinkPerId == \A lid \in LinkIds : LinksOfId(Graph, lid) <= 1

(***************************************************************************)
(* C2: two AddIssueLink calls in sequence for the same link id (records    *)
(* with an inwardIssue) leave exactly one Link of that id in Graph, and    *)
(* the second call changes neither Graph nor the dedup set.  A call that   *)
(* starts after another call for its id has finished finds the id in       *)
(* issueLinks; with N <= 1 no two calls overlap.                           *)
(***************************************************************************)
AllInward(lid) == \A i \in 1..data.total : \A r \in RecordsOf(i) : r.id = lid => r.inward

C2_SecondCallNoOp ==
    \A t \in Threads :
        (th[t].pc = "contains" /\ CurLink(t).id \in issueLinks /\ th'[t] # th[t])
        => /\ Graph' = Graph
           /\ issueLinks' = issueLinks
           /\ th'[t].pc \notin {"addlink", "add"}
           /\ th'[t].pc = "contains" => th'[t].li = th[t].li + 1

C2_ExactlyOne ==
    N <= 1 => \A lid \in LinkIds :
        /\ LinksOfId(Graph, lid) <= 1
        /\ (lid \in issueLinks /\ AllInward(lid)) => LinksOfId(Graph, lid) = 1

C2_TwiceInSequence == []C2_ExactlyOne /\ [][C2_SecondCallNoOp]_vars

\* both records of an id reported twice with an inwardIssue were ingested
\* one call after the other, and one Link is stored
RecordsSeen(lid) ==
    { <<i, k>> \in (DOMAIN Issues) \X (1..2) :
        k \in DOMAIN data.links[i] /\ data.links[i][k].id = lid }

C2_Witness ==
    /\ N <= 1
    /\ Returned
    /\ Cardinality(RecordsSeen("L1")) = 2
    /\ AllInward("L1")
    /\ LinksOfId(Graph, "L1") = 1

(***************************************************************************)
(* C3: when link id L is reported by harvested issue X without an          *)
(* inwardIssue and by harvested issue Y with one, Graph[Y] holds the Link  *)
(* of L after the harvest, whichever of X and Y was processed first.       *)
(***************************************************************************)
C3_InwardSideCaptured ==
    Returned =>
        \A X \in DOMAIN Issues, Y \in DOMAIN Issues :
            \A rx \in RecordsOf(X), ry \in RecordsOf(Y) :
                (X # Y /\ rx.id = ry.id /\ ~rx.inward /\ ry.inward)
                => HasLink(Graph, Y, ry)

(***************************************************************************)
(* The harvest of one worker (N = 1) as a function of the dataset: with a  *)
(* single worker the pages are fetched in the order of their offsets and   *)
(* every AddIssueLink call runs to its end before the next begins.         *)
(***************************************************************************)
\* AddIssueLink run without interruption on st = [G: Graph, S: issueLinks]
AddIssueLink(st, from, rec) ==
    IF Contains(st.S, rec.id)
    THEN st
    ELSE [G |-> IF rec.inward
                THEN AddLink(st.G, [From |-> from, To |-> rec.other,
                                    Type |-> rec.type, Created |-> ZeroTime])
                ELSE st.G,
          S |-> Add(st.S, rec.id)]

RECURSIVE IngestLinks(_, _, _)
\* GetFrom's loop over fields["issuelinks"] of issue from, records k..
IngestLinks(st, from, k) ==
    IF k > Len(data.links[from])
    THEN st
    ELSE IngestLinks(AddIssueLink(st, from, data.links[from][k]), from, k + 1)

\* FetchAll's offsets when no fetch fails: 0, then firstBatchEnd and every
\* stride-th offset below total
SeqStride == IF data.reportsMax THEN Honoured(InitialMaxResults) ELSE InitialMaxResults
SeqFirstBatchEnd == Len(ServedPage(0, InitialMaxResults))
SeqOffsets ==
    {0} \cup { o \in SeqFirstBatchEnd..(data.total - 1) :
                 (o - SeqFirstBatchEnd) % SeqStride = 0 }
SeqHarvested ==
    UNION { { ServedPage(o, SeqStride)[k] : k \in DOMAIN ServedPage(o, SeqStride) } :
            o \in SeqOffsets }

RECURSIVE SeqIngest(_, _)
\* the issues in increasing id (the order of their pages), from issue i on
SeqIngest(st, i) ==
    IF i > data.total
    THEN st
    ELSE SeqIngest(IF i \in SeqHarvested THEN IngestLinks(st, i, 1) ELSE st, i + 1)

SeqGraph == SeqIngest([G |-> EmptyMap, S |-> {}], 1).G
SeqIssues == [i \in SeqHarvested |-> parseIssue(i)]

\* the number of Links (from, to, ty) in a Graph
EdgeCount(G, from, to, ty) ==
    IF from \in DOMAIN G
    THEN Cardinality({ i \in DOMAIN G[from] : G[from][i].To = to /\ G[from][i].Type = ty })
    ELSE 0

SameEdges(G1, G2) ==
    \A from \in IssueIds, to \in IssueIds \cup {ForeignId}, lid \in LinkIds :
        EdgeCount(G1, from, to, LinkTypeOf(lid)) = EdgeCount(G2, from, to, LinkTypeOf(lid))

\* with one worker the harvest is the sequential one
SeqIsOneWorker ==
    (N = 1 /\ Returned /\ NoFetchFailed) => (Issues = SeqIssues /\ SameEdges(Graph, SeqGraph))

(***************************************************************************)
(* C4: against the same dataset and without failed fetches, a harvest with *)
(* any number of workers, under every interleaving, ends with the Issues   *)
(* and the multiset of Graph edges (From, To, Type) of the harvest with    *)
(* one worker.                                                             *)
(***************************************************************************)
C4_SameAsSequential ==
    (N >= 1 /\ Returned /\ NoFetchFailed) => (Issues = SeqIssues /\ SameEdges(Graph, SeqGraph))

(***************************************************************************)
(* C5: after FetchAll returns, when harvested issue A reported an inward   *)
(* link of type Ty to harvested issue B with key K and A's changelog has   *)
(* "Link" items with to = K, Graph[A] holds {From: A, To: B, Type: Ty,     *)
(* Created: T} with T the earliest timestamp of those items.               *)
(***************************************************************************)
\* the timestamps of the "Link" items with to = key in the changelog of a
LinkTimes(a, key) ==
    { data.hist[a][k].created : k \in
        { j \in DOMAIN data.hist[a] :
            /\ data.hist[a][j].field = "Link"
            /\ data.hist[a][j].hasTo
            /\ data.hist[a][j].to = key } }

C5_CreatedResolved ==
    Returned =>
        \A A \in DOMAIN Issues, B \in DOMAIN Issues :
            \A rec \in RecordsOf(A) :
                (rec.inward /\ rec.other = B /\ LinkTimes(A, Issues[B].Name) # {})
                => /\ A \in DOMAIN Graph
                   /\ \E i \in DOMAIN Graph[A] :
                        Graph[A][i] = [From |-> A, To |-> B, Type |-> rec.type,
                                       Created |-> SetMin(LinkTimes(A, Issues[B].Name))]

(***************************************************************************)
(* C6: for every (source id, target key) the pending date is the earliest  *)
(* of the timestamps addDate was called with, in whichever order the calls *)
(* came, and so is the Created that reconciliation gives to the Links of   *)
(* that source whose target has that key.                                  *)
(***************************************************************************)
Observed(from, key) == { e[3] : e \in { x \in evidence : x[1] = from /\ x[2] = key } }

C6_PendingIsMin ==
    \A from \in DOMAIN dates : \A key \in DOMAIN dates[from] :
        /\ Observed(from, key) # {}
        /\ dates[from][key] = SetMin(Observed(from, key))

C6_CreatedIsMin ==
    Reconciled =>
        \A p \in GraphEntries(Graph) :
            LET key == LookupKey(Graph, Issues, Graph[p[1]][p[2]].To)
            IN  Observed(p[1], key) # {}
                => Graph[p[1]][p[2]].Created = SetMin(Observed(p[1], key))

C6_EarliestWins == C6_PendingIsMin /\ C6_CreatedIsMin

\* the later timestamp was observed first, the earlier one second, and the
\* Link carries the earlier one
C6_Witness ==
    /\ Reconciled
    /\ \E p \in GraphEntries(Graph) :
          /\ Len(data.hist[p[1]]) = 2
          /\ data.hist[p[1]][1].created = 2
          /\ data.hist[p[1]][2].created = 1
          /\ Observed(p[1], KeyOf(Graph[p[1]][p[2]].To)) = {1, 2}
          /\ Graph[p[1]][p[2]].Created = 1

(***************************************************************************)
(* C7: addCreatedDates begins only after all N workers have signalled      *)
(* completion: from then on every worker has left its goroutine, so no     *)
(* worker writes the Database, the dedup set or the pending dates at or    *)
(* after that moment, and those are changed by reconciliation alone.       *)
(***************************************************************************)
AfterBarrier == th[0].pc \in {"reconcile", "done"}

C7_AllJoined ==
    AfterBarrier => /\ joined = N
                    /\ \A w \in 1..N : th[w].pc = "exited"

C7_NoWorkerWrite ==
    AfterBarrier => /\ Issues' = Issues
                    /\ Tree' = Tree
                    /\ issueLinks' = issueLinks
                    /\ th[0].pc = "done" => (Graph' = Graph /\ dates' = dates)
                    /\ \A w \in Workers : th'[w] = th[w]

C7_ReconcileAfterBarrier == []C7_AllJoined /\ [][C7_NoWorkerWrite]_vars

\* reconciliation is about to start and both workers have stored a page
C7_Witness ==
    /\ th[0].pc = "reconcile"
    /\ N = 2
    /\ \A w \in 1..2 : \E r \in FetchRecs : r.by = w /\ r.ok

(***************************************************************************)
(* C8: when no page fetch fails and the remote serves non-overlapping      *)
(* pages of the page size it reports, Issues has exactly total entries     *)
(* after FetchAll returns, one per remote issue.                           *)
(***************************************************************************)
C8_AllIssues ==
    (Returned /\ NoFetchFailed /\ data.reportsMax)
    => /\ DOMAIN Issues = 1..data.total
       /\ Cardinality(DOMAIN Issues) = data.total
       /\ \A i \in DOMAIN Issues : Issues[i] = parseIssue(i)

\* total = 5, page size 2: offsets 2 and 4 went to two workers
C8_Witness ==
    /\ Returned
    /\ NoFetchFailed
    /\ data.total = 5
    /\ maxResults = 2
    /\ scheduled = <<2, 4>>
    /\ \A w \in 1..2 : \E r \in FetchRecs : r.by = w
    /\ Cardinality(DOMAIN Issues) = 5

(***************************************************************************)
(* C9: a failed page fetch of a worker is skipped and never retried (each  *)
(* offset is fetched at most once), the harvest still reaches              *)
(* reconciliation and returns, and Issues then holds exactly the issues of *)
(* the pages whose fetch succeeded.                                        *)
(***************************************************************************)
PageIssues(o) == { ServedPage(o, maxResults)[k] : k \in DOMAIN ServedPage(o, maxResults) }

C9_NoRetry ==
    /\ \A r \in FetchRecs : CopiesIn(r, fetchLog) = 1
    /\ \A r1 \in FetchRecs, r2 \in FetchRecs : r1.start = r2.start => r1 = r2

C9_SucceededPages ==
    Returned => DOMAIN Issues = UNION { PageIssues(r.start) : r \in { x \in FetchRecs : x.ok } }

C9_FailureSkipped ==
    /\ [](C9_NoRetry /\ C9_SucceededPages)
    /\ (WorkerFetchFailed ~> Reconciled)

\* one worker's fetch failed, another page was stored by the other worker
C9_Witness ==
    /\ Reconciled
    /\ \E r1 \in FetchRecs, r2 \in FetchRecs :
          /\ r1.by = 1 /\ ~r1.ok
          /\ r2.by = 2 /\ r2.ok /\ PageIssues(r2.start) # {}
          /\ PageIssues(r2.start) \subseteq DOMAIN Issues
          /\ PageIssues(r1.start) \cap DOMAIN Issues = {}

(***************************************************************************)
(* C10: for N >= 1, when every page fetch returns, FetchAll returns; once  *)
(* it has returned nothing changes any more, and every offset that was     *)
(* scheduled has been fetched by then.                                     *)
(***************************************************************************)
C10_ScheduledFetched ==
    Returned => \A k \in DOMAIN scheduled : \E r \in FetchRecs : r.start = scheduled[k]

C10_Terminates ==
    /\ ((N >= 1) ~> Returned)
    /\ []C10_ScheduledFetched
    /\ [][Returned => UNCHANGED vars]_vars

C10_Witness ==
    /\ Reconciled
    /\ N >= 1
    /\ Len(scheduled) >= 2
    /\ \E r \in FetchRecs : ~r.ok

(***************************************************************************)
(* C11: in every reachable state no two threads are at accesses of the     *)
(* same shared variable, one of them a write, outside a critical section.  *)
(* The Database collections, the dedup set and the pending dates are       *)
(* accessed under their locks (one step of this model each); the Tracker's *)
(* total and maxResults are read and written without any lock.             *)
(***************************************************************************)
\* the Tracker fields thread t is about to write without a lock: line 267
\* (when the response has maxResults) and line 270 (when t.total is 0)
UnguardedWrites(t) ==
    IF th[t].pc = "params"
    THEN (IF data.reportsMax THEN {"maxResults"} ELSE {})
         \cup (IF total = 0 THEN {"total"} ELSE {})
    ELSE {}

\* the Tracker fields thread t is about to read without a lock: line 108 in
\* Search, line 269, and lines 141 and 158 in FetchAll
UnguardedReads(t) ==
    CASE th[t].pc = "get" -> {"maxResults"}
      [] th[t].pc = "params" -> {"total"}
      [] th[t].pc = "check" -> {"total"}
      [] th[t].pc = "dispatch" -> {"total"}
      [] th[t].pc = "advance" -> {"maxResults"}
      [] OTHER -> {}

DataRace(t1, t2) ==
    /\ t1 # t2
    /\ UnguardedWrites(t1) \cap (UnguardedWrites(t2) \cup UnguardedReads(t2)) # {}

C11_NoUnguardedAccess == \A t1 \in Threads, t2 \in Threads : ~DataRace(t1, t2)

(***************************************************************************)
(* The Database on its own: any sequence of SetParent calls on a new       *)
(* Database, over the ids 1..LinkTotal, at most MaxCalls calls long.       *)
(***************************************************************************)
MaxCalls == 3

TreeIds == 1..LinkTotal

\* a caller of the package calls db.SetParent(iss, parent)
SetParentCall(iss, parent) ==
    /\ Len(calls) < MaxCalls
    /\ Tree' = SetParent(Tree, iss, parent)
    /\ calls' = Append(calls, <<iss, parent>>)
    /\ UNCHANGED <<data, N, Issues, Graph, tracker, th, orch, fetchLog, scheduled, evidence, added>>

\* NewDatabase; the tracker around it stays as constructed
TreeInit ==
    /\ Init
    /\ data = Dataset(0, 1, TRUE, FALSE, NoParent, NoLinks, NoHist)
    /\ N = 0

TreeNext == \E iss \in TreeIds, parent \in TreeIds : SetParentCall(iss, parent)

TreeSpec == TreeInit /\ [][TreeNext]_vars

(***************************************************************************)
(* C12: after any sequence of SetParent calls, Tree has an entry for       *)
(* exactly the children that were set, the entry of a child is the parent  *)
(* of the most recent call for that child, and a call leaves the entries   *)
(* of all other children as they were.                                     *)
(***************************************************************************)
CallsFor(c) == {k \in DOMAIN calls : calls[k][1] = c}

LastCall(c) == calls[CHOOSE k \in CallsFor(c) : \A j \in CallsFor(c) : j <= k]

C12_TreeIsLastCall ==
    /\ DOMAIN Tree = {calls[k][1] : k \in DOMAIN calls}
    /\ \A c \in DOMAIN Tree : Tree[c] = LastCall(c)[2]

C12_OthersUnchanged ==
    [][calls' # calls =>
         \A c \in DOMAIN Tree :
            c # calls'[Len(calls')][1] => c \in DOMAIN Tree' /\ Tree'[c] = Tree[c]]_vars

C12_LastWriteWins == []C12_TreeIsLastCall /\ C12_OthersUnchanged

\* a child set twice with different parents, another child set in between
C12_Witness ==
    /\ Len(calls) = 3
    /\ calls[1][1] = calls[3][1]
    /\ calls[1][2] # calls[3][2]
    /\ calls[2][1] # calls[1][1]
    /\ Tree[calls[1][1]] = calls[3][2]

(***************************************************************************)
(* The harvest against a remote that may leave one request unanswered:     *)
(* http.Get has no timeout, so the jsonutil.Get of one worker may never    *)
(* return.  Everything else is scheduled fairly.                           *)
(***************************************************************************)
Hung(w) == th[w].pc = "hung"

\* the jsonutil.Get of worker w blocks forever (at most one worker, and only
\* against a flaky remote)
Hang(w) ==
    /\ w \in 1..N
    /\ th[w].pc = "get"
    /\ data.flaky
    /\ \A v \in Workers : ~Hung(v)
    /\ th' = [th EXCEPT ![w].pc = "hung"]
    /\ UNCHANGED <<data, N, db, tracker, orch, history>>

HangNext ==
    \/ Next
    \/ \E w \in Workers : Hang(w)

HangSpec == Init /\ [][HangNext]_vars /\ WF_vars(HangNext)

(***************************************************************************)
(* C13: when one worker hangs forever inside a fetch, that worker holds    *)
(* only the one offset it received (never fetched), with N >= 2 every      *)
(* other scheduled offset is eventually fetched and the queue closed, and  *)
(* the orchestrator never passes the barrier: no reconciliation, no Done.  *)
(***************************************************************************)
C13_HoldsOneOffset ==
    \A w \in Workers :
        Hung(w) => /\ Cardinality({k \in DOMAIN scheduled : scheduled[k] = th[w].start}) = 1
                   /\ \A r \in FetchRecs : r.by # 0 => r.start # th[w].start

C13_NeverPastBarrier ==
    \A w \in Workers : Hung(w) => ~AfterBarrier /\ ~Returned /\ joined < N

C13_OthersFetched(w) ==
    /\ workClosed
    /\ \A k \in DOMAIN scheduled :
          scheduled[k] # th[w].start =>
              \E r \in FetchRecs : r.start = scheduled[k] /\ r.by # 0
    /\ \A v \in 1..N : v # w => th[v].pc \in {"senddone", "exited"}

C13_HungWorker ==
    /\ [](C13_HoldsOneOffset /\ C13_NeverPastBarrier)
    /\ \A w \in Workers : (Hung(w) /\ N >= 2) ~> C13_OthersFetched(w)

\* one of two workers hung, the other has fetched the rest and signalled,
\* the orchestrator is waiting for the second signal
C13_Witness ==
    \E w \in Workers :
        /\ Hung(w)
        /\ N = 2
        /\ Len(scheduled) >= 2
        /\ C13_OthersFetched(w)
        /\ th[0].pc = "join"
        /\ joined = 1

(***************************************************************************)
(* C14: the offsets sent on work are firstBatchEnd + k * maxResults for    *)
(* k = 0, 1, ... below total, in increasing order and none missing once    *)
(* work is closed, where total and maxResults are what the first fetch     *)
(* left in the Tracker; while the dispatch loop runs no later response     *)
(* changes total or maxResults.                                            *)
(***************************************************************************)
Dispatching == th[0].pc \in {"dispatch", "advance"}

C14_LearnedFromFirstPage ==
    Dispatching => /\ total = data.total
                   /\ maxResults = SeqStride
                   /\ firstBatchEnd = SeqFirstBatchEnd

C14_Offsets ==
    /\ \A k \in DOMAIN scheduled :
          /\ scheduled[k] = firstBatchEnd + (k - 1) * maxResults
          /\ scheduled[k] < total
    /\ workClosed => firstBatchEnd + Len(scheduled) * maxResults >= total

C14_StrideStable == [][Dispatching => maxResults' = maxResults /\ total' = total]_vars

FetchCount(o) ==
    LET recs == {r \in FetchRecs : r.start = o /\ r.by # 0}
        RECURSIVE Sum(_)
        Sum(S) == IF S = {} THEN 0
                  ELSE LET r == CHOOSE x \in S : TRUE
                       IN CopiesIn(r, fetchLog) + Sum(S \ {r})
    IN Sum(recs)

\* the workers that hold offset o or have fetched it
Takers(o) ==
    {w \in 1..N : \/ th[w].start = o /\ th[w].pc \notin {"recv", "senddone", "exited", "unborn"}
                  \/ \E r \in FetchRecs : r.start = o /\ r.by = w}

C15_ExactlyOnce ==
    /\ \A j \in DOMAIN scheduled, k \in DOMAIN scheduled :
          scheduled[j] = scheduled[k] => j = k
    /\ \A r \in FetchRecs :
          r.by # 0 => \E k \in DOMAIN scheduled : scheduled[k] = r.start
    /\ \A k \in DOMAIN scheduled :
          /\ Cardinality(Takers(scheduled[k])) = 1
          /\ FetchCount(scheduled[k]) <= 1
          /\ AfterBarrier => FetchCount(scheduled[k]) = 1

\* past the barrier after two workers fetched one offset each
C15_Witness ==
    /\ AfterBarrier
    /\ Len(scheduled) >= 2
    /\ \E r1 \in FetchRecs, r2 \in FetchRecs :
          r1.by # 0 /\ r2.by # 0 /\ r1.by # r2.by

(***************************************************************************)
(* C16: when pages remain after the first, exactly the workers 1..N are    *)
(* launched (none otherwise); a worker leaves its loop only after work is  *)
(* closed and every offset sent has been received; a worker sends on done  *)
(* once and then stays exited; the orchestrator's receives count the       *)
(* exited workers and are exactly N when it is past the barrier.           *)
(***************************************************************************)
Launched == {w \in Workers : th[w].pc # "unborn"}

PagesRemain == th[0].pc \in {"dispatch", "advance", "join", "reconcile", "done"}

C16_ExactlyNLaunched == Launched = (IF PagesRemain THEN 1..N ELSE {})

C16_ExitAfterClose ==
    \A w \in Workers :
        th[w].pc \in {"senddone", "exited"} =>
            /\ workClosed
            /\ \A k \in DOMAIN scheduled : Takers(scheduled[k]) # {}

C16_SignalsCounted ==
    /\ joined = Cardinality({w \in Workers : th[w].pc = "exited"})
    /\ joined <= N
    /\ AfterBarrier => joined = N

C16_SignalOnce ==
    [][/\ \A w \in Workers : th[w].pc = "exited" => th'[w].pc = "exited"
       /\ joined' # joined =>
             /\ joined' = joined + 1
             /\ Cardinality({w \in Workers : th[w].pc = "senddone" /\ th'[w].pc = "exited"}) = 1]_vars

C16_WorkerLifecycle ==
    /\ [](C16_ExactlyNLaunched /\ C16_ExitAfterClose /\ C16_SignalsCounted)
    /\ C16_SignalOnce

\* both of two workers have signalled, having fetched at least one offset,
\* and the orchestrator has left the barrier
C16_Witness ==
    /\ N = 2
    /\ Launched = {1, 2}
    /\ joined = 2
    /\ scheduled # <<>>
    /\ th[0].pc = "reconcile"

(***************************************************************************)
(* C17: when the issues stored by the first fetch are at least total,      *)
(* FetchAll goes from the first fetch straight to its early return: one    *)
(* jsonutil.Get in all, no worker launched, no offset sent, and nothing    *)
(* happens after the return.                                               *)
(***************************************************************************)
FirstPageCovers == th[0].pc = "check" /\ Cardinality(DOMAIN Issues) >= total

C17_OneFetchOnly ==
    (FirstPageCovers \/ th[0].pc = "complete") =>
        /\ BagCardinality(fetchLog) = 1
        /\ \A r \in FetchRecs : r.start = 0 /\ r.by = 0
        /\ Launched = {}
        /\ scheduled = <<>>
        /\ ~workClosed /\ joined = 0

C17_StraightToComplete ==
    [][/\ FirstPageCovers => th'[0].pc = "complete"
       /\ th[0].pc # "complete"]_vars

C17_CoveredByFirstPage == []C17_OneFetchOnly /\ C17_StraightToComplete

\* a first page of at least two issues that is the whole dataset, with
\* workers asked for
C17_Witness ==
    /\ th[0].pc = "complete"
    /\ N >= 1
    /\ total >= 2
    /\ Cardinality(DOMAIN Issues) = total

(***************************************************************************)
(* C18: until addCreatedDates has run (during the first fetch, dispatch,   *)
(* the workers' fetches and after the barrier), every Link in Graph has    *)
(* the zero Created; the only step that gives a Link a non-zero Created    *)
(* is the reconciliation.                                                  *)
(***************************************************************************)
Stamped(G) == {e \in GraphEntries(G) : G[e[1]][e[2]].Created # ZeroTime}

C18_ZeroBeforeReconcile == ~Reconciled => Stamped(Graph) = {}

C18_OnlyReconcileStamps ==
    [][Stamped(Graph') # Stamped(Graph) => th[0].pc = "reconcile" /\ th'[0].pc = "done"]_vars

C18_ZeroUntilReconciled == []C18_ZeroBeforeReconcile /\ C18_OnlyReconcileStamps

\* past the barrier, reconciliation not yet run, with a Link in Graph whose
\* source has a pending date for the Link's target
C18_Witness ==
    /\ th[0].pc = "reconcile"
    /\ \E e \in GraphEntries(Graph) :
          /\ e[1] \in DOMAIN dates
          /\ LookupKey(Graph, Issues, Graph[e[1]][e[2]].To) \in DOMAIN dates[e[1]]

(***************************************************************************)
(* C19: the reconciliation step changes nothing but the Created of Links:  *)
(* Issues, Tree and the dedup set are as before, Graph has the same        *)
(* sources, and every source has the same number of Links with the same    *)
(* From, To and Type at the same positions.                                *)
(***************************************************************************)
SameButCreated(G, H) ==
    /\ DOMAIN H = DOMAIN G
    /\ \A f \in DOMAIN G :
          /\ Len(H[f]) = Len(G[f])
          /\ \A i \in DOMAIN G[f] :
                /\ H[f][i].From = G[f][i].From
                /\ H[f][i].To = G[f][i].To
                /\ H[f][i].Type = G[f][i].Type

C19_ReconcileFrame ==
    [][th[0].pc = "reconcile" =>
          /\ Issues' = Issues
          /\ Tree' = Tree
          /\ issueLinks' = issueLinks
          /\ SameButCreated(Graph, Graph')]_vars

\* reconciled: a Link has got its date; Issues and the dedup set are filled
C19_Witness ==
    /\ Reconciled
    /\ Stamped(Graph) # {}
    /\ Cardinality(DOMAIN Issues) = LinkTotal
    /\ issueLinks # {}

(***************************************************************************)
(* C20: after reconciliation, a Link whose target is not a key of Issues   *)
(* has the zero Created, whatever dates were recorded for its source.      *)
(***************************************************************************)
UnfetchedTarget(e) == Graph[e[1]][e[2]].To \notin DOMAIN Issues

C20_UnfetchedTargetZero ==
    Reconciled =>
        \A e \in GraphEntries(Graph) :
            UnfetchedTarget(e) => Graph[e[1]][e[2]].Created = ZeroTime

(***************************************************************************)
(* C21: once addCreatedDates has run the pending dates are empty: the      *)
(* entries of every source are gone, those that gave a Link its date and   *)
(* those that matched no Link alike.                                       *)
(***************************************************************************)
C21_PendingEmpty == Reconciled => dates = EmptyMap

\* the dates a source had pending matched one of its Links
Matched(f) ==
    /\ f \in DOMAIN Graph
    /\ \E i \in DOMAIN Graph[f] : Graph[f][i].Created # ZeroTime

\* reconciled after dates were recorded for a source whose Link got its
\* date and for a source that has no Link at all
C21_Witness ==
    /\ Reconciled
    /\ dates = EmptyMap
    /\ \E e \in evidence : Matched(e[1])
    /\ \E e \in evidence : e[1] \notin DOMAIN Graph

(***************************************************************************)
(* C22: the steps of AddIssueLink on a record without an inward side whose *)
(* id is not in the dedup set change nothing in Issues, Tree and Graph:    *)
(* after the Contains test the call goes to issueLinks.Add, and that step  *)
(* adds the id to the dedup set and changes no other state.                *)
(***************************************************************************)
\* thread t has moved on in its AddIssueLink call
Stepped(t) == th'[t] # th[t]

NoInwardUnseen(t) ==
    /\ th[t].pc = "contains"
    /\ ~CurLink(t).inward
    /\ ~Contains(issueLinks, CurLink(t).id)

NoInwardAdd(t) == th[t].pc = "add" /\ ~CurLink(t).inward

C22_NoInwardFrame ==
    [][\A t \in Threads :
          /\ NoInwardUnseen(t) /\ Stepped(t) =>
                /\ th'[t] = [th[t] EXCEPT !.pc = "add"]
                /\ db' = db
                /\ tracker' = tracker
          /\ NoInwardAdd(t) /\ Stepped(t) =>
                /\ db' = db
                /\ issueLinks' = issueLinks \cup {CurLink(t).id}
                /\ <<total, maxResults, dates>>' = <<total, maxResults, dates>>]_vars

\* a record without an inward side has been ingested: its id is in the
\* dedup set, no Link of its type is in Graph, and its issue is past it
C22_Witness ==
    \E t \in Threads :
        /\ InAddIssueLink(t)
        /\ th[t].li = 2
        /\ ~data.links[CurIssue(t)][1].inward
        /\ data.links[CurIssue(t)][1].id \in issueLinks
        /\ LinksOfId(Graph, data.links[CurIssue(t)][1].id) = 0

(***************************************************************************)
(* The Database on its own: any sequence of AddLink calls on a new         *)
(* Database, with Links between the ids 1..LinkTotal (self-loops           *)
(* included), at most MaxCalls calls long.                                 *)
(***************************************************************************)
CallLinks ==
    { [From |-> f, To |-> t, Type |-> LinkTypeOf("L1"), Created |-> ZeroTime] :
        f \in TreeIds, t \in TreeIds }

\* a caller of the package calls db.AddLink(l)
AddLinkCall(l) ==
    /\ Len(added) < MaxCalls
    /\ Graph' = AddLink(Graph, l)
    /\ added' = Append(added, l)
    /\ UNCHANGED <<data, N, Issues, Tree, tracker, th, orch, fetchLog, scheduled, evidence, calls>>

GraphInit == TreeInit

GraphNext == \E l \in CallLinks : AddLinkCall(l)

GraphSpec == GraphInit /\ [][GraphNext]_vars

(***************************************************************************)
(* C23: AddLink(l) appends l at the end of Graph[l.From] and leaves every  *)
(* other source's sequence as it was.  So Graph[id] is the sequence of     *)
(* the Links with From = id in the order of the calls, equal Links and     *)
(* self-loops included, each call giving exactly one entry.                *)
(***************************************************************************)
AddedFrom(id) ==
    LET FromId(l) == l.From = id
    IN  SelectSeq(added, FromId)

C23_GraphIsCallOrder ==
    /\ DOMAIN Graph = {added[k].From : k \in DOMAIN added}
    /\ \A id \in DOMAIN Graph : Graph[id] = AddedFrom(id)

C23_AppendsAtEnd ==
    [][added' # added =>
         LET l == added'[Len(added')]
         IN  /\ DOMAIN Graph' = DOMAIN Graph \cup {l.From}
             /\ Graph'[l.From] =
                   Append(IF l.From \in DOMAIN Graph THEN Graph[l.From] ELSE <<>>, l)
             /\ \A f \in DOMAIN Graph : f # l.From => Graph'[f] = Graph[f]]_vars

C23_AddLinkAppends == []C23_GraphIsCallOrder /\ C23_AppendsAtEnd

\* the same Link added twice, then a self-loop of another source
C23_Witness ==
    /\ Len(added) = 3
    /\ added[1] = added[2]
    /\ added[3].From = added[3].To
    /\ added[3].From # added[1].From
    /\ Len(Graph[added[1].From]) = 2
    /\ Len(Graph[added[3].From]) = 1

(***************************************************************************)
(* C24: when the first jsonutil.Get (offset 0, by the caller of FetchAll)  *)
(* returns an error, there is no second fetch, no worker is launched, no   *)
(* offset is sent, Issues, Tree and Graph stay empty, and FetchAll takes   *)
(* its early return.                                                       *)
(***************************************************************************)
FirstFetchFailed == \E r \in FetchRecs : r.by = 0 /\ ~r.ok

C24_NothingHarvested ==
    FirstFetchFailed =>
        /\ BagCardinality(fetchLog) = 1
        /\ Launched = {}
        /\ scheduled = <<>>
        /\ Issues = EmptyMap /\ Tree = EmptyMap /\ Graph = EmptyMap
        /\ th[0].pc \in {"check", "complete"}

C24_FirstFetchFails ==
    /\ []C24_NothingHarvested
    /\ FirstFetchFailed ~> (th[0].pc = "complete")

\* returned after a failed first fetch of a remote that has issues, with
\* workers asked for
C24_Witness ==
    /\ FirstFetchFailed
    /\ th[0].pc = "complete"
    /\ data.total >= 2
    /\ N >= 1

(***************************************************************************)
(* C25: for every N, N = 0 included, whenever the dispatch loop has an     *)
(* offset to send on work (start < total), a worker eventually receives    *)
(* it and in the end work is closed.                                       *)
(***************************************************************************)
HasOffsetToSend == th[0].pc = "dispatch" /\ start < total

C25_DispatchCompletes == HasOffsetToSend ~> workClosed

====
